---- MODULE Spec2Model ----
(***************************************************************************)
(* Business Guardian AI: the Flink SQL fraud-detection pipeline of         *)
(* backend/confluent/flink_sql/01_create_tables.sql.                       *)
(*                                                                         *)
(* Three source topics (qr_code_scans, inventory_physical,                 *)
(* inventory_digital) feed five continuous INSERT INTO fraud_alerts        *)
(* queries; live_threats is a view over fraud_alerts.  A sixth query        *)
(* aggregates qr_code_scans into threat_scores.                            *)
(*                                                                         *)
(* Number encoding.  TLC has 32-bit integers and no floating point:        *)
(*   - timestamps (BIGINT, epoch milliseconds) are integers; the origin of *)
(*     the model's time is Epoch0 seconds after the epoch;                 *)
(*   - UNIX_TIMESTAMP() (epoch seconds) is the variable now;               *)
(*   - threat_score DOUBLE is held in hundredths (95.0 is 9500);           *)
(*   - confidence DOUBLE is held in hundredths (0.75 is 75);               *)
(*   - product_info.value DOUBLE is held in cents (500.0 is 50000);        *)
(*   - delta_kg DOUBLE is held in tenths of a kilogram (10.0 is 100).      *)
(* Strings are TLA+ strings: CONCAT is \o, CAST(.. AS STRING) prints the   *)
(* number, LIKE '%x%' is a substring search.                               *)
(*                                                                         *)
(* The frontend is modelled beside it: the useWebSocket hook               *)
(* (frontend/src/hooks/useWebSocket.ts), the Dashboard's message callback  *)
(* (frontend/src/pages/Dashboard.tsx), and the auth store with the         *)
(* AuthService and the router's guards (frontend/src/store/authStore.ts).  *)
(* Each part has its own variables and its own specifications; the         *)
(* actions of one part leave the variables of the others alone.            *)
(***************************************************************************)
EXTENDS Integers, Sequences, FiniteSets, TLC

VARIABLES
    now,                \* UNIX_TIMESTAMP(): processing time, epoch seconds
    qr_code_scans,      \* rows delivered from topic qr-code-scans, in arrival order
    inventory_physical, \* rows delivered from topic inventory-physical
    inventory_digital,  \* rows delivered from topic inventory-digital
    fraud_alerts,       \* records written to topic fraud-alerts (upsert changelog)
    fired,              \* history: for each record of fraud_alerts, what produced it
    q2_state,           \* Query 2's interval-join state (rows kept, rows that came late)
    threat_scores,      \* records written to topic threat-scores (upsert changelog)
    scored,             \* history: for each record of threat_scores, what produced it
    q6_state,           \* Query 6's window state (scans held in windows not yet fired,
                        \* scans it left out)
    \* frontend/src/hooks/useWebSocket.ts
    ws,                 \* ws.current: the socket the hook refers to (0 is null)
    sockets,            \* every WebSocket the hook created: readyState, heartbeat
    reconnectTimeout,   \* reconnectTimeout.current: a timer id (0 is null)
    shouldReconnect,    \* shouldReconnect.current
    isConnected,        \* the hook's isConnected state
    timeouts,           \* the setTimeout timers still pending, oldest first
    intervals,          \* the setInterval timers still active
    mounted,            \* whether the auto-connect effect has run and not been undone
    log,                \* history: disconnected sockets, reconnect attempts
    \* frontend/src/pages/Dashboard.tsx
    alerts,             \* the Dashboard's alert list
    metrics,            \* the Dashboard's metrics (total_alerts, critical_alerts)
    lastMessage,        \* the hook's lastMessage state
    \* frontend/src/store/authStore.ts and the router
    store,              \* user, token, isAuthenticated, isLoading, error
    localStorage,       \* auth_token, user and the persisted auth-storage entry
    requests,           \* store actions waiting for their response
    location,           \* the router's current path
    done                \* history: the store or router step taken last

pipeline_vars == <<now, qr_code_scans, inventory_physical, inventory_digital,
                   fraud_alerts, fired, q2_state, threat_scores, scored, q6_state>>

hook_vars == <<ws, sockets, reconnectTimeout, shouldReconnect, isConnected,
               timeouts, intervals, mounted, log>>

dashboard_vars == <<alerts, metrics, lastMessage>>

auth_vars == <<store, localStorage, requests, location, done>>

frontend_vars == <<hook_vars, dashboard_vars, auth_vars>>

vars == <<pipeline_vars, frontend_vars>>

-----------------------------------------------------------------------------
(* Bounds of the model *)

Epoch0 == 1000000      \* origin of model time, epoch seconds
MaxTicks == 2          \* steps of processing time in one behaviour
MaxRows == 2           \* rows delivered in one behaviour of Spec
MaxJoinRows == 4       \* rows delivered in one behaviour of SpecJoin
MaxScoreRows == 3      \* rows delivered in one behaviour of SpecScores
MaxLullRows == 4       \* rows delivered in one behaviour of SpecLull

(* Program constants *)

JoinWindowMs == 30000      \* INTERVAL '30' SECOND
WatermarkDelayMs == 5000   \* INTERVAL '5' SECOND
HighValueCents == 50000    \* product_info.value > 500.0
MinMissingItems == 5       \* (expected - detected) >= 5
MinWeightDropDkg == 100    \* ABS(delta_kg) > 10.0
MinConfidencePct == 70     \* confidence > 0.7
CameraScoreFactor == 85    \* confidence * 85.0
LiveHorizonS == 3600       \* UNIX_TIMESTAMP() - 3600
LiveLimit == 100           \* LIMIT 100
TumbleMs == 300000         \* TUMBLE(event_time, INTERVAL '5' MINUTE)

NullInt == 0 - 1           \* SQL NULL in a BIGINT / INT column
NullStr == "<NULL>"        \* SQL NULL in a STRING column

T0 == Epoch0 * 1000        \* the model's time origin in epoch milliseconds

-----------------------------------------------------------------------------
(* SQL scalar functions *)

Abs(x) == IF x < 0 THEN 0 - x ELSE x

Max(S) == CHOOSE x \in S : \A y \in S : y <= x

\* CONCAT(a, b, ...): NULL if any argument is NULL
RECURSIVE ConcatAll(_)
ConcatAll(parts) ==
    IF parts = <<>> THEN ""
    ELSE IF Head(parts) = NullStr THEN NullStr
    ELSE LET rest == ConcatAll(Tail(parts))
         IN  IF rest = NullStr THEN NullStr ELSE Head(parts) \o rest

CONCAT(parts) == ConcatAll(parts)

\* CAST(n AS STRING) for BIGINT / INT
CastInt(n) == IF n = NullInt THEN NullStr ELSE ToString(n)

\* CAST(d AS STRING) for a DOUBLE held in hundredths: 129900 is '1299.0'
CastHundredths(c) ==
    LET a == Abs(c)
        f == a % 100
    IN  (IF c < 0 THEN "-" ELSE "") \o ToString(a \div 100) \o "." \o
        (IF f % 10 = 0 THEN ToString(f \div 10)
         ELSE (IF f < 10 THEN "0" ELSE "") \o ToString(f))

\* CAST(d AS STRING) for a DOUBLE held in tenths: -420 is '-42.0'
CastTenths(d) ==
    (IF d < 0 THEN "-" ELSE "") \o ToString(Abs(d) \div 10) \o "." \o ToString(Abs(d) % 10)

\* s LIKE '%pat%' (case-sensitive); NULL LIKE .. is not true
LikeContains(s, pat) ==
    /\ s # NullStr
    /\ \E i \in 1..(Len(s) - Len(pat) + 1) : SubSeq(s, i, i + Len(pat) - 1) = pat

\* s = 'literal'; NULL = .. is not true
StrEq(s, lit) == s # NullStr /\ s = lit

-----------------------------------------------------------------------------
(* Computed columns of the source tables *)

\* qr_code_scans.event_time, inventory_physical.event_time:
\* TO_TIMESTAMP_LTZ(timestamp, 3), held as epoch milliseconds
EventTime(r) == r.timestamp

\* inventory_digital.event_time: TO_TIMESTAMP_LTZ(COALESCE(timestamp, last_updated), 3)
EventTimeDigital(d) == IF d.timestamp # NullInt THEN d.timestamp ELSE d.last_updated

-----------------------------------------------------------------------------
(* QUERY 1: Detect Invalid QR Code Scans *)

Query1Where(s) == s.is_valid = FALSE /\ s.alert = TRUE

Query1Severity(threat_level) ==
    IF StrEq(threat_level, "critical") THEN "critical"
    ELSE IF StrEq(threat_level, "high") THEN "high"
    ELSE "medium"

Query1Score(threat_level) ==
    IF StrEq(threat_level, "critical") THEN 9500
    ELSE IF StrEq(threat_level, "high") THEN 8000
    ELSE IF StrEq(threat_level, "medium") THEN 6000
    ELSE 4000

Query1AlertId(s, unix_ts) == CONCAT(<<"QR-INVALID-", s.qr_id, "-", CastInt(unix_ts)>>)

Query1Select(s, unix_ts) ==
    [ alert_id           |-> Query1AlertId(s, unix_ts),
      alert_type         |-> "invalid_qr_code",
      severity           |-> Query1Severity(s.threat_level),
      title              |-> "Invalid QR Code Detected",
      description        |-> CONCAT(<<"QR code ", s.qr_id, " failed verification at ",
                                      s.scan_location, ". Reason: ", s.reason,
                                      ". Threat level: ", s.threat_level>>),
      product_id         |-> s.product_info.product_id,
      product_name       |-> s.product_info.name,
      location           |-> s.scan_location,
      evidence           |-> << CONCAT(<<"QR verification failed: ", s.reason>>),
                                CONCAT(<<"Scan location: ", s.scan_location>>),
                                CONCAT(<<"Product value: $", CastHundredths(s.product_info.value)>>),
                                CONCAT(<<"Fraud indicators: ", CastInt(Len(s.fraud_indicators))>>) >>,
      threat_score       |-> Query1Score(s.threat_level),
      timestamp_detected |-> s.timestamp,
      requires_action    |-> TRUE ]

-----------------------------------------------------------------------------
(* QUERY 2: Physical-Digital Inventory Discrepancy Detection *)

\* ON phys.location = dig.location AND phys.event_time BETWEEN
\*    dig.event_time - INTERVAL '30' SECOND AND dig.event_time + INTERVAL '30' SECOND
\* Query2JoinOn with the upper bound one millisecond too far
Query2JoinOn_Wide(phys, dig) ==
    /\ phys.location # NullStr /\ phys.location = dig.location
    /\ EventTime(phys) # NullInt /\ EventTimeDigital(dig) # NullInt
    /\ EventTime(phys) >= EventTimeDigital(dig) - JoinWindowMs
    /\ EventTime(phys) <= EventTimeDigital(dig) + JoinWindowMs + 1

\* Query2JoinOn with the window's ends left out (> and < for BETWEEN)
Query2JoinOn_Open(phys, dig) ==
    /\ phys.location # NullStr /\ phys.location = dig.location
    /\ EventTime(phys) # NullInt /\ EventTimeDigital(dig) # NullInt
    /\ EventTime(phys) > EventTimeDigital(dig) - JoinWindowMs
    /\ EventTime(phys) < EventTimeDigital(dig) + JoinWindowMs

Query2JoinOn(phys, dig) ==
    /\ phys.location # NullStr /\ phys.location = dig.location
    /\ EventTime(phys) # NullInt /\ EventTimeDigital(dig) # NullInt
    /\ EventTime(phys) >= EventTimeDigital(dig) - JoinWindowMs
    /\ EventTime(phys) <= EventTimeDigital(dig) + JoinWindowMs

\* Query2Where with the weight threshold included (ABS(delta_kg) >= 10.0)
Query2Where_Inclusive(phys) ==
    /\ StrEq(phys.event_type, "weight_sensor")
    /\ phys.anomaly_detected = TRUE
    /\ (phys.expected_items_count - phys.detected_items_count) >= MinMissingItems
    /\ Abs(phys.delta_kg) >= MinWeightDropDkg

Query2Where(phys) ==
    /\ StrEq(phys.event_type, "weight_sensor")
    /\ phys.anomaly_detected = TRUE
    /\ phys.expected_items_count # NullInt /\ phys.detected_items_count # NullInt
    /\ (phys.expected_items_count - phys.detected_items_count) >= MinMissingItems
    /\ phys.delta_kg # NullInt
    /\ Abs(phys.delta_kg) > MinWeightDropDkg

Query2AlertId(phys, unix_ts) == CONCAT(<<"INV-MISMATCH-", phys.sensor_id, "-", CastInt(unix_ts)>>)

Query2Select(phys, dig, unix_ts) ==
    LET missing == CastInt(phys.expected_items_count - phys.detected_items_count)
    IN
    [ alert_id           |-> Query2AlertId(phys, unix_ts),
      alert_type         |-> "inventory_discrepancy",
      severity           |-> "critical",
      title              |-> "Physical-Digital Inventory Mismatch Detected",
      description        |-> CONCAT(<<"CRITICAL: Physical sensors detect ", missing,
                                      " missing items at ", phys.location,
                                      ", but digital records show normal inventory levels. Possible theft in progress!">>),
      product_id         |-> dig.product_id,
      product_name       |-> dig.product_name,
      location           |-> phys.location,
      evidence           |-> << CONCAT(<<"Physical expected: ", CastInt(phys.expected_items_count), " items">>),
                                CONCAT(<<"Physical detected: ", CastInt(phys.detected_items_count), " items">>),
                                CONCAT(<<"Items missing: ", missing>>),
                                CONCAT(<<"Weight drop: ", CastTenths(phys.delta_kg), " kg">>),
                                CONCAT(<<"Digital inventory: ", CastInt(dig.quantity_on_hand), " units">>),
                                "ATTACK PATTERN: Matches 37M Paris warehouse fraud scenario" >>,
      threat_score       |-> 9800,
      timestamp_detected |-> phys.timestamp,
      requires_action    |-> TRUE ]

-----------------------------------------------------------------------------
(* QUERY 3: Suspicious User Activity Detection *)

\* Query3Where without the notes (the last OR left out)
Query3Where_NoNotes(d) ==
    \/ StrEq(d.transaction_type, "fraud_adjust")
    \/ (LikeContains(d.user_id, "COMPROMISED") \/ LikeContains(d.user_id, "UNKNOWN"))

Query3Where(d) ==
    \/ StrEq(d.transaction_type, "fraud_adjust")
    \/ (LikeContains(d.user_id, "COMPROMISED") \/ LikeContains(d.user_id, "UNKNOWN"))
    \/ (LikeContains(d.notes, "FRAUDULENT") \/ LikeContains(d.notes, "SUSPICIOUS"))

Query3AlertId(d) == CONCAT(<<"USER-FRAUD-", d.transaction_id>>)

Query3Select(d) ==
    [ alert_id           |-> Query3AlertId(d),
      alert_type         |-> "suspicious_user",
      severity           |-> "critical",
      title              |-> "Fraudulent ERP Transaction Detected",
      description        |-> CONCAT(<<"ALERT: User \"", d.user_id,
                                      "\" created suspicious transaction marking ",
                                      CastInt(IF d.quantity_change = NullInt THEN NullInt
                                              ELSE Abs(d.quantity_change)),
                                      " items as shipped. ", "Transaction notes: ", d.notes>>),
      product_id         |-> d.product_id,
      product_name       |-> d.product_name,
      location           |-> d.warehouse_id,
      evidence           |-> << CONCAT(<<"Transaction ID: ", d.transaction_id>>),
                                CONCAT(<<"User ID: ", d.user_id>>),
                                CONCAT(<<"Type: ", d.transaction_type>>),
                                CONCAT(<<"Quantity change: ", CastInt(d.quantity_change)>>),
                                CONCAT(<<"Notes: ", d.notes>>) >>,
      threat_score       |-> 9200,
      timestamp_detected |-> d.timestamp,
      requires_action    |-> TRUE ]

-----------------------------------------------------------------------------
(* QUERY 4: Exit Gate Alert - Invalid QR at Exit *)

\* Query4Where with Query 1's filter copied in (AND alert = TRUE)
Query4Where_AlertFlag(s) ==
    /\ s.is_valid = FALSE
    /\ s.alert = TRUE
    /\ LikeContains(s.scan_location, "exit")
    /\ s.product_info.value > HighValueCents

\* Query4Where with the threshold included (value >= 500.0)
Query4Where_Inclusive(s) ==
    /\ s.is_valid = FALSE
    /\ LikeContains(s.scan_location, "exit")
    /\ s.product_info.value >= HighValueCents

Query4Where(s) ==
    /\ s.is_valid = FALSE
    /\ LikeContains(s.scan_location, "exit")
    /\ s.product_info.value > HighValueCents

\* Query4AlertId with Query 1's prefix left in
Query4AlertId_CopiedPrefix(s, unix_ts) == CONCAT(<<"QR-INVALID-", s.qr_id, "-", CastInt(unix_ts)>>)

Query4AlertId(s, unix_ts) == CONCAT(<<"EXIT-BLOCK-", s.qr_id, "-", CastInt(unix_ts)>>)

Query4Select(s, unix_ts) ==
    [ alert_id           |-> Query4AlertId(s, unix_ts),
      alert_type         |-> "unauthorized_exit",
      severity           |-> "critical",
      title              |-> "BLOCK EXIT - Invalid QR Code at Gate",
      description        |-> CONCAT(<<"IMMEDIATE ACTION REQUIRED: Product \"", s.product_info.name,
                                      "\" with invalid QR code detected at exit gate. Value: $",
                                      CastHundredths(s.product_info.value),
                                      ". Verification failed: ", s.reason>>),
      product_id         |-> s.product_info.product_id,
      product_name       |-> s.product_info.name,
      location           |-> s.scan_location,
      evidence           |-> << "EXIT GATE SCAN FAILED",
                                CONCAT(<<"Product: ", s.product_info.name>>),
                                CONCAT(<<"Value: $", CastHundredths(s.product_info.value)>>),
                                CONCAT(<<"Threat level: ", s.threat_level>>),
                                CONCAT(<<"Failure reason: ", s.reason>>),
                                "ACTION: SECURITY ALERT - BLOCK EXIT" >>,
      threat_score       |-> 10000,
      timestamp_detected |-> s.timestamp,
      requires_action    |-> TRUE ]

-----------------------------------------------------------------------------
(* QUERY 5: Suspicious Camera Activity Correlation *)

\* Query5Where without the alert flag
Query5Where_NoFlag(cam) ==
    /\ StrEq(cam.event_type, "camera_detection")
    /\ StrEq(cam.detection_type, "suspicious_activity")
    /\ cam.confidence # NullInt
    /\ cam.confidence > MinConfidencePct

Query5Where(cam) ==
    /\ StrEq(cam.event_type, "camera_detection")
    /\ StrEq(cam.detection_type, "suspicious_activity")
    /\ cam.alert = TRUE
    /\ cam.confidence # NullInt
    /\ cam.confidence > MinConfidencePct

Query5AlertId(cam, unix_ts) == CONCAT(<<"CAM-ALERT-", cam.camera_id, "-", CastInt(unix_ts)>>)

\* cam.confidence * 85.0: hundredths of confidence times 85 is hundredths of score
Query5Score(cam) == cam.confidence * CameraScoreFactor

Query5Select(cam, unix_ts) ==
    LET pct == CONCAT(<<CastInt(cam.confidence), ".0">>)   \* CAST(cam.confidence * 100 AS STRING)
    IN
    [ alert_id           |-> Query5AlertId(cam, unix_ts),
      alert_type         |-> "suspicious_activity",
      severity           |-> "high",
      title              |-> "Suspicious Activity Detected by Security Camera",
      description        |-> CONCAT(<<"Camera ", cam.camera_id, " detected ", cam.detection_type,
                                      " with ", pct, "% confidence at ", cam.location,
                                      ". ", CastInt(cam.object_count), " objects detected.">>),
      product_id         |-> "UNKNOWN",
      product_name       |-> "Multiple Products",
      location           |-> cam.location,
      evidence           |-> << CONCAT(<<"Camera: ", cam.camera_id>>),
                                CONCAT(<<"Detection: ", cam.detection_type>>),
                                CONCAT(<<"Confidence: ", pct, "%">>),
                                CONCAT(<<"Object count: ", CastInt(cam.object_count)>>),
                                "Recommendation: Security review required" >>,
      threat_score       |-> Query5Score(cam),
      timestamp_detected |-> cam.timestamp,
      requires_action    |-> TRUE ]

-----------------------------------------------------------------------------
(* QUERY 6: Calculate Product-Level Threat Scores *)

\* TUMBLE(event_time, INTERVAL '5' MINUTE): the start of the window of event_time
TumbleStart(event_time) == event_time - (event_time % TumbleMs)

\* the last millisecond of the window that starts at window_start
TumbleMaxTimestamp(window_start) == window_start + TumbleMs - 1

\* WHERE window_start >= CURRENT_TIMESTAMP - INTERVAL '5' MINUTE, read with
\* window_start the start of the row's window and CURRENT_TIMESTAMP the
\* processing time in milliseconds; a row without event_time has no window
Query6Where(s, unix_ts) ==
    /\ EventTime(s) # NullInt
    /\ TumbleStart(EventTime(s)) >= unix_ts * 1000 - TumbleMs

\* Query6Score with Query 1's scores (40.0 for 'low' and for anything else)
Query6Score_AlertScores(threat_level) ==
    IF StrEq(threat_level, "critical") THEN 9500
    ELSE IF StrEq(threat_level, "high") THEN 8000
    ELSE IF StrEq(threat_level, "medium") THEN 6000
    ELSE 4000

\* the CASE inside AVG, in hundredths
Query6Score(threat_level) ==
    IF StrEq(threat_level, "critical") THEN 9500
    ELSE IF StrEq(threat_level, "high") THEN 8000
    ELSE IF StrEq(threat_level, "medium") THEN 6000
    ELSE IF StrEq(threat_level, "low") THEN 3000
    ELSE 1000

\* GROUP BY TUMBLE(event_time, ..), product_info.product_id, product_info.name,
\* scan_location
Query6GroupBy(s) ==
    << TumbleStart(EventTime(s)), s.product_info.product_id, s.product_info.name,
       s.scan_location >>

RECURSIVE Query6Sum(_, _)
Query6Sum(scans, G) ==
    IF G = {} THEN 0
    ELSE LET j == CHOOSE x \in G : TRUE
         IN  Query6Score(scans[j].threat_level) + Query6Sum(scans, G \ {j})

\* the row of one group: G is the set of positions in scans of the group's rows.
\* AVG is held exactly, as the sum (in hundredths) and the number of rows;
\* COLLECT(DISTINCT reason) is the set of the non-NULL reasons.
Query6Select(scans, G) ==
    LET s == scans[CHOOSE j \in G : TRUE]
    IN  [ product_id   |-> s.product_info.product_id,
          product_name |-> s.product_info.name,
          location     |-> s.scan_location,
          threat_score |-> [sum |-> Query6Sum(scans, G), count |-> Cardinality(G)],
          risk_factors |-> { scans[j].reason : j \in G } \ {NullStr},
          last_updated |-> Max({ scans[j].timestamp : j \in G }) ]

-----------------------------------------------------------------------------
(* The fraud_alerts table: 'connector' = 'upsert-kafka', PRIMARY KEY (alert_id). *)
(* The topic keeps every record written; the table holds, for each alert_id,     *)
(* the last record written under it.                                             *)

FraudAlertsTable ==
    { fraud_alerts[i] : i \in { k \in 1..Len(fraud_alerts) :
          \A j \in (k + 1)..Len(fraud_alerts) :
              fraud_alerts[j].alert_id # fraud_alerts[k].alert_id } }

(* The threat_scores table: 'connector' = 'upsert-kafka', PRIMARY KEY           *)
(* (product_id): for each product_id, the last record written under it.         *)

\* ThreatScoresTable without the key: every record written is a row
ThreatScoresTable_Unkeyed == { threat_scores[m] : m \in 1..Len(threat_scores) }

ThreatScoresTable ==
    { threat_scores[m] : m \in { k \in 1..Len(threat_scores) :
          \A l \in (k + 1)..Len(threat_scores) :
              threat_scores[l].product_id # threat_scores[k].product_id } }

-----------------------------------------------------------------------------
(* Watermarks: WATERMARK FOR event_time AS event_time - INTERVAL '5' SECOND.     *)
(* Each source's watermark follows the largest event_time it delivered; the      *)
(* join operator of Query 2 runs at the smaller of its two inputs' watermarks    *)
(* and has none until both inputs delivered a row.                               *)

HasWatermark == inventory_physical # <<>> /\ inventory_digital # <<>>

WatermarkPhysical ==
    Max({ EventTime(inventory_physical[i]) : i \in 1..Len(inventory_physical) }) - WatermarkDelayMs

WatermarkDigital ==
    Max({ EventTimeDigital(inventory_digital[i]) : i \in 1..Len(inventory_digital) }) - WatermarkDelayMs

Query2Watermark ==
    IF WatermarkPhysical <= WatermarkDigital THEN WatermarkPhysical ELSE WatermarkDigital

\* a row whose event_time is behind the operator's watermark when it is delivered
IsLate(event_time) == HasWatermark /\ event_time < Query2Watermark

\* Query 2's watermark once the physical row p is delivered as well
WatermarkAfterPhysical(p) ==
    LET wp == Max({ EventTime(inventory_physical[i]) : i \in 1..Len(inventory_physical) }
                  \cup {EventTime(p)}) - WatermarkDelayMs
    IN  IF wp <= WatermarkDigital THEN wp ELSE WatermarkDigital

\* Query 2's watermark once the digital row d is delivered as well
WatermarkAfterDigital(d) ==
    LET wd == Max({ EventTimeDigital(inventory_digital[i]) : i \in 1..Len(inventory_digital) }
                  \cup {EventTimeDigital(d)}) - WatermarkDelayMs
    IN  IF WatermarkPhysical <= wd THEN WatermarkPhysical ELSE wd

\* The join keeps a row while a row of the other input that is not behind the
\* watermark can still be within the 30 seconds of its ON clause; it lets go of
\* the row when the watermark has moved past that.
Query2Keeps(event_time, watermark) == event_time >= watermark - JoinWindowMs

\* qr_code_scans' watermark over the rows scans (at least one)
WatermarkScans(scans) ==
    Max({ EventTime(scans[i]) : i \in 1..Len(scans) }) - WatermarkDelayMs

\* a scan whose window was already fired when it is delivered
IsLateForWindow(s) ==
    /\ qr_code_scans # <<>>
    /\ TumbleMaxTimestamp(TumbleStart(EventTime(s))) <= WatermarkScans(qr_code_scans)

-----------------------------------------------------------------------------
(* State machine *)

Delivered == Len(qr_code_scans) + Len(inventory_physical) + Len(inventory_digital)

RECURSIVE Perms(_)
Perms(S) ==
    IF S = {} THEN {<<>>}
    ELSE UNION { { <<x>> \o p : p \in Perms(S \ {x}) } : x \in S }

\* The orders in which the join can hand out the kept rows M that match one
\* delivered row: rows of different event_time in any order, rows of equal
\* event_time in the order they were delivered.
PhysicalOrders(M) ==
    { o \in Perms(M) : \A a \in 1..Len(o), b \in 1..Len(o) :
        (a < b /\ EventTime(inventory_physical[o[a]]) = EventTime(inventory_physical[o[b]]))
        => o[a] < o[b] }

DigitalOrders(M) ==
    { o \in Perms(M) : \A a \in 1..Len(o), b \in 1..Len(o) :
        (a < b /\ EventTimeDigital(inventory_digital[o[a]])
                    = EventTimeDigital(inventory_digital[o[b]]))
        => o[a] < o[b] }

Trigger(q, s, p, d) == [query |-> q, scan |-> s, phys |-> p, dig |-> d, step |-> Delivered + 1]

\* InsertIntoFraudAlerts that keeps one record per alert_id in the topic: a
\* record whose alert_id is in the topic already is written over the old one
InsertIntoFraudAlerts_InPlace(out) ==
    LET keep == { k \in 1..Len(fraud_alerts) :
                    \A n \in 1..Len(out) : out[n].row.alert_id # fraud_alerts[k].alert_id }
        kept == SelectSeq([k \in 1..Len(fraud_alerts) |-> k], LAMBDA k : k \in keep)
    IN  /\ fraud_alerts' = [n \in 1..Len(kept) |-> fraud_alerts[kept[n]]]
                               \o [k \in 1..Len(out) |-> out[k].row]
        /\ fired' = [n \in 1..Len(kept) |-> fired[kept[n]]]
                        \o [k \in 1..Len(out) |-> out[k].by]

\* INSERT INTO fraud_alerts: the records are appended to the topic
InsertIntoFraudAlerts(out) ==
    /\ fraud_alerts' = fraud_alerts \o [k \in 1..Len(out) |-> out[k].row]
    /\ fired' = fired \o [k \in 1..Len(out) |-> out[k].by]

\* The orders in which Query 6 writes the groups of the windows one watermark
\* fires: windows in the order of their end, the groups of one window in any
\* order.
Query6Orders(groups) ==
    { o \in Perms(groups) : \A a \in 1..Len(o), b \in 1..Len(o) :
        a < b => o[a][1] <= o[b][1] }

\* INSERT INTO threat_scores by a delivered scan s: Query 6 puts the row in its
\* window, and the windows the watermark has passed are written and let go.
InsertIntoThreatScores(s) ==
    LET i      == Len(qr_code_scans) + 1
        scans  == Append(qr_code_scans, s)
        taken  == Query6Where(s, now) /\ ~IsLateForWindow(s)
        held   == IF taken THEN q6_state.rows \cup {i} ELSE q6_state.rows
        firing == { j \in held :
                      TumbleMaxTimestamp(TumbleStart(EventTime(scans[j])))
                          <= WatermarkScans(scans) }
        groups == { Query6GroupBy(scans[j]) : j \in firing }
        Rows(g) == { j \in firing : Query6GroupBy(scans[j]) = g }
    IN  \E order \in Query6Orders(groups) :
            /\ threat_scores' = threat_scores \o
                   [k \in 1..Len(order) |-> Query6Select(scans, Rows(order[k]))]
            /\ scored' = scored \o
                   [k \in 1..Len(order) |->
                       [window |-> order[k][1], scans |-> Rows(order[k]),
                        by |-> i, step |-> Delivered + 1]]
            /\ q6_state' = [rows    |-> held \ firing,
                            dropped |-> IF taken THEN q6_state.dropped
                                        ELSE q6_state.dropped \cup {i}]

-----------------------------------------------------------------------------
(* The frontend.  frontend/src/hooks/useWebSocket.ts: the hook keeps one       *)
(* socket reference, one reconnect timer reference and a flag.  A socket is    *)
(* named by its position in `sockets`; the reconnect timer a socket's onclose  *)
(* starts and the heartbeat interval a socket's onopen starts carry that       *)
(* socket's number as their timer id (each handler runs once per socket).      *)

MaxSockets == 3

\* The close code of an intentional close, and the codes of the other closes
\* modelled here (going away, abnormal closure)
NormalClosure == 1000

OtherClosures == {1001, 1006}

Hook ==
    [ws |-> ws, sockets |-> sockets, reconnectTimeout |-> reconnectTimeout,
     shouldReconnect |-> shouldReconnect, isConnected |-> isConnected,
     timeouts |-> timeouts, intervals |-> intervals, log |-> log]

SetHook(h) ==
    /\ ws' = h.ws
    /\ sockets' = h.sockets
    /\ reconnectTimeout' = h.reconnectTimeout
    /\ shouldReconnect' = h.shouldReconnect
    /\ isConnected' = h.isConnected
    /\ timeouts' = h.timeouts
    /\ intervals' = h.intervals
    /\ log' = h.log

\* new WebSocket(wsUrl): the socket starts CONNECTING, with no heartbeat property
NewWebSocket == [readyState |-> "CONNECTING", heartbeat |-> 0, established |-> FALSE]

clearTimeout(pending, id) == SelectSeq(pending, LAMBDA t : t # id)

clearInterval(active, id) == active \ {id}

\* WebSocket.close(): a socket that is CONNECTING or OPEN starts closing
close(sock) ==
    IF sock.readyState \in {"CONNECTING", "OPEN"}
    THEN [sock EXCEPT !.readyState = "CLOSING"]
    ELSE sock

\* connect(), as the closure of a render whose token and user are `token_user`
connect(h, token_user) ==
    IF ~token_user THEN h
    ELSE IF h.ws # 0 /\ h.sockets[h.ws].readyState = "OPEN" THEN h
    ELSE [h EXCEPT !.sockets = Append(@, NewWebSocket),
                   !.ws = Len(h.sockets) + 1]

\* Whether connect() would construct a socket
connectCreates(h, token_user) ==
    token_user /\ ~(h.ws # 0 /\ h.sockets[h.ws].readyState = "OPEN")

\* The onopen handler given to socket i
onopen(h, i) ==
    LET cleared == IF h.reconnectTimeout # 0
                   THEN [h EXCEPT !.timeouts = clearTimeout(@, h.reconnectTimeout),
                                  !.reconnectTimeout = 0]
                   ELSE h
        started == [cleared EXCEPT !.isConnected = TRUE,
                                   !.intervals = @ \cup {i}]
    IN  IF started.ws # 0
        THEN [started EXCEPT !.sockets[started.ws].heartbeat = i]
        ELSE started

\* The onerror handler given to every socket
onerror(h) == [h EXCEPT !.isConnected = FALSE]

\* The onclose handler given to socket i, for a close event with this code
onclose(h, i, code) ==
    LET down == [h EXCEPT !.isConnected = FALSE]
        beat == IF down.ws # 0 THEN down.sockets[down.ws].heartbeat ELSE 0
        cleared == IF beat # 0
                   THEN [down EXCEPT !.intervals = clearInterval(@, beat)]
                   ELSE down
    IN  IF cleared.shouldReconnect /\ code # NormalClosure
        THEN [cleared EXCEPT !.timeouts = Append(@, i),
                             !.reconnectTimeout = i]
        ELSE cleared

disconnect(h) ==
    LET off == [h EXCEPT !.shouldReconnect = FALSE]
        untimed == IF off.reconnectTimeout # 0
                   THEN [off EXCEPT !.timeouts = clearTimeout(@, off.reconnectTimeout),
                                    !.reconnectTimeout = 0]
                   ELSE off
        beat == IF untimed.ws # 0 THEN untimed.sockets[untimed.ws].heartbeat ELSE 0
        closed == IF untimed.ws # 0
                  THEN [untimed EXCEPT
                          !.intervals = IF beat # 0 THEN clearInterval(@, beat) ELSE @,
                          !.sockets[untimed.ws] = close(@),
                          !.log.disconnected = @ \cup {untimed.ws},
                          !.ws = 0]
                  ELSE untimed
    IN  [closed EXCEPT !.isConnected = FALSE]

InitHook ==
    /\ ws = 0
    /\ sockets = <<>>
    /\ reconnectTimeout = 0
    /\ shouldReconnect = TRUE
    /\ isConnected = FALSE
    /\ timeouts = <<>>
    /\ intervals = {}
    /\ mounted = "rendering"
    /\ log = [disconnected |-> {}, reconnects |-> {}]

\* What a hook action leaves alone
HookFrame == UNCHANGED <<pipeline_vars, dashboard_vars, auth_vars>>

Rendered == mounted \in {"anonymous", "authenticated"}

\* The auto-connect effect runs: at mount, and again (after its cleanup) when
\* token or user changed.  token_user says whether both are set in the render
\* the effect belongs to.
AutoConnectEffect(token_user) ==
    /\ mounted # "unmounted"
    /\ token_user => Len(sockets) < MaxSockets
    /\ LET cleaned == IF Rendered THEN disconnect(Hook) ELSE Hook
           armed == IF token_user
                    THEN connect([cleaned EXCEPT !.shouldReconnect = TRUE], token_user)
                    ELSE cleaned
       IN  SetHook(armed)
    /\ mounted' = IF token_user THEN "authenticated" ELSE "anonymous"
    /\ HookFrame

\* The component unmounts: the effect's cleanup runs
Unmount ==
    /\ Rendered
    /\ SetHook(disconnect(Hook))
    /\ mounted' = "unmounted"
    /\ HookFrame

\* The component calls the connect() the hook returned
Connect ==
    /\ Rendered
    /\ connectCreates(Hook, mounted = "authenticated") => Len(sockets) < MaxSockets
    /\ SetHook(connect(Hook, mounted = "authenticated"))
    /\ UNCHANGED mounted
    /\ HookFrame

\* The component calls the disconnect() the hook returned
Disconnect ==
    /\ Rendered
    /\ SetHook(disconnect(Hook))
    /\ UNCHANGED mounted
    /\ HookFrame

\* The connection of socket i is established: the browser sets it OPEN and
\* fires the open event
SocketOpen(i) ==
    /\ sockets[i].readyState = "CONNECTING"
    /\ LET opened == [Hook EXCEPT !.sockets[i].readyState = "OPEN",
                                  !.sockets[i].established = TRUE]
       IN  SetHook(onopen(opened, i))
    /\ UNCHANGED mounted
    /\ HookFrame

\* The close codes the close event of a socket can carry: a connection that
\* was never established fails; an established one is closed with the code
\* the peer sent, or is lost.
CloseCodes(sock) ==
    IF ~sock.established THEN {1006}
    ELSE IF sock.readyState = "CLOSING" THEN {NormalClosure, 1006}
    ELSE {NormalClosure} \cup OtherClosures

\* The connection of socket i is closed: the browser sets it CLOSED, fires the
\* error event when the connection failed, and fires the close event
SocketClose(i, code) ==
    /\ sockets[i].readyState # "CLOSED"
    /\ code \in CloseCodes(sockets[i])
    /\ LET shut == [Hook EXCEPT !.sockets[i].readyState = "CLOSED"]
           failed == IF code = 1006 THEN onerror(shut) ELSE shut
       IN  SetHook(onclose(failed, i, code))
    /\ UNCHANGED mounted
    /\ HookFrame

\* The oldest pending reconnect timer fires, five seconds after the close that
\* started it: it calls the connect() of the render that made the socket
ReconnectTimer ==
    /\ timeouts # <<>>
    /\ connectCreates(Hook, TRUE) => Len(sockets) < MaxSockets
    /\ LET fired_timer == Head(timeouts)
           rest == [Hook EXCEPT !.timeouts = Tail(@),
                                !.log.reconnects = @ \cup {fired_timer}]
       IN  SetHook(connect(rest, TRUE))
    /\ UNCHANGED mounted
    /\ HookFrame

-----------------------------------------------------------------------------
(* frontend/src/pages/Dashboard.tsx: the callback the Dashboard gives to       *)
(* useWebSocket, and the mock data its mount effect sets.  An alert is held    *)
(* by its alert_id and severity; a message by its type and payload.            *)

\* Bounds: fraud alerts received in a run, and how many of the first ones vary
\* in severity
MaxMessages == 38
VariedAlerts == 2

\* .slice(0, 50)
AlertCap == 50

\* setMetrics({ total_alerts: 47, critical_alerts: 8, ... }) of the mount effect
MockTotalAlerts == 47
MockCriticalAlerts == 8

NullPayload == [alert_id |-> NullInt, severity |-> NullStr]

NullMessage == [type |-> NullStr, payload |-> NullPayload]

\* mockAlerts: ALERT-001 .. ALERT-015 with their severities
mockSeverities ==
    <<"critical", "critical", "critical", "high", "high", "medium", "medium", "high",
      "medium", "low", "medium", "high", "medium", "low", "low">>

mockAlerts == [k \in 1..Len(mockSeverities) |->
                  [alert_id |-> k, severity |-> mockSeverities[k]]]

\* Array.prototype.slice(0, n)
slice(list, n) == SubSeq(list, 1, IF Len(list) < n THEN Len(list) ELSE n)

\* setAlerts((prev) => [message.payload, ...prev].slice(0, 50)), with another
\* order of the list
DashboardAlerts_Appended(prev, message) ==
    IF message.type = "fraud_alert" /\ message.payload # NullPayload
    THEN slice(Append(prev, message.payload), AlertCap)
    ELSE prev

\* The callback's update of the alert list
DashboardAlerts(prev, message) ==
    IF message.type = "fraud_alert" /\ message.payload # NullPayload
    THEN slice(<<message.payload>> \o prev, AlertCap)
    ELSE prev

\* The callback's update of the metrics
DashboardMetrics(prev, message) ==
    IF message.type = "fraud_alert" /\ message.payload # NullPayload
    THEN [prev EXCEPT
            !.total_alerts = @ + 1,
            !.critical_alerts = IF message.payload.severity = "critical"
                                THEN @ + 1 ELSE @]
    ELSE prev

InitDashboard ==
    /\ alerts = <<>>
    /\ metrics = [total_alerts |-> 0, critical_alerts |-> 0]
    /\ lastMessage = NullMessage

\* The Dashboard mounts with token and user set: the hook's auto-connect effect
\* and the Dashboard's mock-data effect run in the same commit
DashboardMount ==
    /\ mounted = "rendering"
    /\ SetHook(connect([Hook EXCEPT !.shouldReconnect = TRUE], TRUE))
    /\ mounted' = "authenticated"
    /\ alerts' = mockAlerts
    /\ metrics' = [total_alerts |-> MockTotalAlerts,
                   critical_alerts |-> MockCriticalAlerts]
    /\ UNCHANGED <<lastMessage, pipeline_vars, auth_vars>>

\* The fraud alerts received so far
AlertsReceived == metrics.total_alerts - MockTotalAlerts

\* The messages a socket can deliver next: a fraud alert with a payload (its
\* alert_id the next one, its severity varied at the start of a run and once
\* the list is full), a fraud alert without payload, and the other types
Severities(n) ==
    IF n < VariedAlerts \/ n >= AlertCap - Len(mockAlerts)
    THEN {"critical", "high"}
    ELSE {"low"}

Messages ==
    { [type |-> "fraud_alert",
       payload |-> [alert_id |-> Len(mockAlerts) + AlertsReceived + 1, severity |-> sev]] :
         sev \in Severities(AlertsReceived) }
    \cup { [type |-> t, payload |-> NullPayload] :
             t \in {"fraud_alert", "connection_established", "pong", "unknown"} }

\* Socket i delivers a message: the onmessage handler stores it and calls the
\* Dashboard's callback (the toast it may show keeps no state)
SocketMessage(i, message) ==
    /\ sockets[i].readyState = "OPEN"
    /\ mounted = "authenticated"
    /\ AlertsReceived < MaxMessages
    /\ lastMessage' = message
    /\ alerts' = DashboardAlerts(alerts, message)
    /\ metrics' = DashboardMetrics(metrics, message)
    /\ UNCHANGED <<hook_vars, pipeline_vars, auth_vars>>

-----------------------------------------------------------------------------
(* frontend/src/store/authStore.ts with the AuthService it calls, the useAuth  *)
(* wrappers that navigate, and the router with its two guards.  A user is held *)
(* by its subscription_tier, the one field the guards read.                    *)

\* Bound: store actions waiting for their response at the same time
MaxRequests == 2

Users == {"free", "paid"}

AccessToken == "jwt"

Paths == {"/", "/login", "/register", "/pricing", "/dashboard", "/settings",
          "/analytics", "/missing"}

\* JSON.stringify(user) and JSON.parse(userStr) with its catch
JSONStringify(u) == "{\"subscription_tier\":\"" \o u \o "\"}"

JSONParse(str) ==
    IF \E u \in Users : JSONStringify(u) = str
    THEN CHOOSE u \in Users : JSONStringify(u) = str
    ELSE NullStr

\* AuthService.getStoredUser
getStoredUser(ls) == IF ls.user = NullStr THEN NullStr ELSE JSONParse(ls.user)

\* AuthService.getToken
getToken(ls) == ls.auth_token

\* AuthService.isAuthenticated: a token is stored and, decoded, has not expired
isAuthenticated(ls, expired) == ls.auth_token # NullStr /\ ~expired

NoAuthStorage == [present |-> FALSE, user |-> NullStr, token |-> NullStr,
                  isAuthenticated |-> FALSE]

\* partialize: the fields persisted under the key auth-storage
partialize(st) == [present |-> TRUE, user |-> st.user, token |-> st.token,
                   isAuthenticated |-> st.isAuthenticated]

\* The store with its storage
App == [store |-> store, localStorage |-> localStorage, href |-> location.href]

\* set(patch): the store takes the new state and persist writes its part of it
set(app, st) ==
    [app EXCEPT !.store = st, !.localStorage.auth_storage = partialize(st)]

\* The store as created at page load: the initial state read through
\* AuthService, over it what persist kept under auth-storage
createStore(ls, expired) ==
    LET initial == [user |-> getStoredUser(ls),
                    token |-> getToken(ls),
                    isAuthenticated |-> isAuthenticated(ls, expired),
                    isLoading |-> FALSE,
                    error |-> NullStr]
        kept == ls.auth_storage
    IN  IF kept.present
        THEN [initial EXCEPT !.user = kept.user, !.token = kept.token,
                             !.isAuthenticated = kept.isAuthenticated]
        ELSE initial

\* AuthService.logout
authServiceLogout(app) ==
    [app EXCEPT !.localStorage.auth_token = NullStr,
                !.localStorage.user = NullStr,
                !.href = "/login"]

\* The response interceptor: a 401 logs out before the error goes on
interceptor(app, status) == IF status = 401 THEN authServiceLogout(app) ELSE app

\* AuthService.register / login / googleAuth on a response: token and user stored
authServiceStore(app, u) ==
    [app EXCEPT !.localStorage.auth_token = AccessToken,
                !.localStorage.user = JSONStringify(u)]

\* AuthService.getCurrentUser on a response: user stored
getCurrentUser(app, u) == [app EXCEPT !.localStorage.user = JSONStringify(u)]

\* The message of the Error each AuthService call throws when the response
\* carries no detail
FailureMessage(action) ==
    CASE action = "register" -> "Registration failed. Please try again."
      [] action = "login" -> "Login failed. Please check your credentials."
      [] action = "googleLogin" -> "Google authentication failed. Please try again."
      [] action = "refreshUser" -> "Failed to fetch user profile."

\* The store's logout
logout(app) ==
    LET out == authServiceLogout(app)
    IN  set(out, [out.store EXCEPT !.user = NullStr, !.token = NullStr,
                                   !.isAuthenticated = FALSE, !.error = NullStr])

\* register, login, googleLogin up to their await
begin(app) == set(app, [app.store EXCEPT !.isLoading = TRUE, !.error = NullStr])

\* refreshUser up to its await
beginRefreshUser(app) == set(app, [app.store EXCEPT !.isLoading = TRUE])

\* register, login, googleLogin after a response
succeed(app, u) ==
    LET stored == authServiceStore(app, u)
    IN  set(stored, [stored.store EXCEPT !.user = u, !.token = AccessToken,
                                         !.isAuthenticated = TRUE,
                                         !.isLoading = FALSE, !.error = NullStr])

\* register, login, googleLogin in their catch, leaving isLoading as it is
fail_StillLoading(app, action, status) ==
    LET refused == interceptor(app, status)
    IN  set(refused, [refused.store EXCEPT !.error = FailureMessage(action)])

\* register, login, googleLogin in their catch
fail(app, action, status) ==
    LET refused == interceptor(app, status)
    IN  set(refused, [refused.store EXCEPT !.error = FailureMessage(action),
                                           !.isLoading = FALSE])

\* refreshUser after a response
succeedRefreshUser(app, u) ==
    LET stored == getCurrentUser(app, u)
    IN  set(stored, [stored.store EXCEPT !.user = u, !.isLoading = FALSE,
                                         !.error = NullStr])

\* refreshUser in its catch, without the logout
failRefreshUser_NoLogout(app, status) ==
    LET refused == interceptor(app, status)
    IN  set(refused, [refused.store EXCEPT !.error = FailureMessage("refreshUser"),
                                           !.isLoading = FALSE])

\* refreshUser in its catch
failRefreshUser(app, status) ==
    LET refused == interceptor(app, status)
        told == set(refused, [refused.store EXCEPT
                                !.error = FailureMessage("refreshUser"),
                                !.isLoading = FALSE])
    IN  logout(told)

\* What a route renders: a page, or a <Navigate> to another path
Page(name) == [page |-> name, navigate |-> NullStr]

Navigate(to) == [page |-> NullStr, navigate |-> to]

\* ProtectedRoute without the subscription check
ProtectedRoute_AnyTier(children, requirePaid, st) ==
    IF ~st.isAuthenticated THEN Navigate("/login") ELSE Page(children)

ProtectedRoute(children, requirePaid, st) ==
    IF ~st.isAuthenticated THEN Navigate("/login")
    ELSE IF requirePaid /\ st.user # "paid" THEN Navigate("/pricing")
    ELSE Page(children)

\* PublicRoute sending authenticated users to a public page
PublicRoute_ToLogin(children, st) ==
    IF st.isAuthenticated THEN Navigate("/login") ELSE Page(children)

PublicRoute(children, st) ==
    IF st.isAuthenticated THEN Navigate("/dashboard") ELSE Page(children)

\* The element AppRouter renders at a path
AppRouter(pathname, st) ==
    CASE pathname = "/" -> PublicRoute("Landing", st)
      [] pathname = "/login" -> PublicRoute("Login", st)
      [] pathname = "/register" -> PublicRoute("Register", st)
      [] pathname = "/pricing" -> Page("Pricing")
      [] pathname = "/dashboard" -> ProtectedRoute("Dashboard", FALSE, st)
      [] pathname = "/settings" -> ProtectedRoute("Settings", FALSE, st)
      [] pathname = "/analytics" -> ProtectedRoute("Analytics", TRUE, st)
      [] OTHER -> Page("NotFound")

InitAuthStore ==
    /\ localStorage = [auth_token |-> NullStr, user |-> NullStr,
                       auth_storage |-> NoAuthStorage]
    /\ store = createStore(localStorage, FALSE)
    /\ requests = {}
    /\ location = [pathname |-> "/", href |-> NullStr]
    /\ done = [action |-> "load", outcome |-> "ok", thrown |-> FALSE]

\* What a store or router action leaves alone
AuthFrame == UNCHANGED <<pipeline_vars, hook_vars, dashboard_vars>>

\* The store, its storage and the location after a handler
SetApp(app, pathname) ==
    /\ store' = app.store
    /\ localStorage' = app.localStorage
    /\ location' = [pathname |-> pathname, href |-> app.href]

Finished(action, outcome, thrown) ==
    done' = [action |-> action, outcome |-> outcome, thrown |-> thrown]

LoginActions == {"register", "login", "googleLogin"}

\* register, login or googleLogin is called and reaches its await
Begin(action) ==
    /\ action \notin requests
    /\ Cardinality(requests) < MaxRequests
    /\ SetApp(begin(App), location.pathname)
    /\ requests' = requests \cup {action}
    /\ Finished(action, "started", FALSE)
    /\ AuthFrame

\* refreshUser is called: without a stored token getCurrentUser throws before
\* any request is made, otherwise the call reaches its await
BeginRefreshUser ==
    /\ "refreshUser" \notin requests
    /\ Cardinality(requests) < MaxRequests
    /\ IF getToken(localStorage) = NullStr
       THEN /\ SetApp(failRefreshUser(beginRefreshUser(App), 0), location.pathname)
            /\ UNCHANGED requests
            /\ Finished("refreshUser", "failed", FALSE)
       ELSE /\ SetApp(beginRefreshUser(App), location.pathname)
            /\ requests' = requests \cup {"refreshUser"}
            /\ Finished("refreshUser", "started", FALSE)
    /\ AuthFrame

\* The response of a call arrives with a user; the useAuth wrapper of register,
\* login and googleLogin then navigates to /dashboard
Respond(action, u) ==
    /\ action \in requests
    /\ IF action = "refreshUser"
       THEN SetApp(succeedRefreshUser(App, u), location.pathname)
       ELSE SetApp(succeed(App, u), "/dashboard")
    /\ requests' = requests \ {action}
    /\ Finished(action, "ok", FALSE)
    /\ AuthFrame

\* A call fails with this status; register, login and googleLogin rethrow
Reject(action, status) ==
    /\ action \in requests
    /\ IF action = "refreshUser"
       THEN SetApp(failRefreshUser(App, status), location.pathname)
       ELSE SetApp(fail(App, action, status), location.pathname)
    /\ requests' = requests \ {action}
    /\ Finished(action, "failed", action # "refreshUser")
    /\ AuthFrame

\* useAuth's logout: the store's logout, then navigate('/login')
Logout ==
    /\ SetApp(logout(App), "/login")
    /\ Finished("logout", "ok", FALSE)
    /\ UNCHANGED requests
    /\ AuthFrame

ClearError ==
    /\ SetApp(set(App, [store EXCEPT !.error = NullStr]), location.pathname)
    /\ Finished("clearError", "ok", FALSE)
    /\ UNCHANGED requests
    /\ AuthFrame

SetLoading(b) ==
    /\ SetApp(set(App, [store EXCEPT !.isLoading = b]), location.pathname)
    /\ Finished("setLoading", "ok", FALSE)
    /\ UNCHANGED requests
    /\ AuthFrame

\* The page loads: at the path window.location.href was given, or again where
\* it is (the user reloads).  The store is created anew, persist writes back
\* what it holds, and the calls of the page before are gone.
PageLoad(expired) ==
    LET path == IF location.href # NullStr THEN location.href ELSE location.pathname
        created == createStore(localStorage, expired)
    IN  /\ store' = created
        /\ localStorage' = [localStorage EXCEPT !.auth_storage = partialize(created)]
        /\ location' = [pathname |-> path, href |-> NullStr]
        /\ requests' = {}
        /\ Finished("load", "ok", FALSE)
        /\ AuthFrame

\* The user follows a link to a path
GoTo(path) ==
    /\ location' = [location EXCEPT !.pathname = path]
    /\ Finished("navigate", "ok", FALSE)
    /\ UNCHANGED <<store, localStorage, requests>>
    /\ AuthFrame

\* The element at the current path is a <Navigate>: the router goes there
Redirect ==
    /\ AppRouter(location.pathname, store).navigate # NullStr
    /\ location' = [location EXCEPT
                      !.pathname = AppRouter(location.pathname, store).navigate]
    /\ Finished("redirect", "ok", FALSE)
    /\ UNCHANGED <<store, localStorage, requests>>
    /\ AuthFrame

-----------------------------------------------------------------------------

Init ==
    /\ now = Epoch0
    /\ qr_code_scans = <<>>
    /\ inventory_physical = <<>>
    /\ inventory_digital = <<>>
    /\ fraud_alerts = <<>>
    /\ fired = <<>>
    /\ q2_state = [phys |-> {}, dig |-> {}, late |-> {}]
    /\ threat_scores = <<>>
    /\ scored = <<>>
    /\ q6_state = [rows |-> {}, dropped |-> {}]
    /\ InitHook
    /\ InitDashboard
    /\ InitAuthStore

\* A row of qr-code-scans is delivered: Query 1 and Query 4 each evaluate it,
\* Query 6 aggregates it.
IngestScan(s) ==
    LET i    == Len(qr_code_scans) + 1
        out1 == IF Query1Where(s)
                THEN << [row |-> Query1Select(s, now), by |-> Trigger(1, i, 0, 0)] >>
                ELSE <<>>
        out4 == IF Query4Where(s)
                THEN << [row |-> Query4Select(s, now), by |-> Trigger(4, i, 0, 0)] >>
                ELSE <<>>
    IN  /\ qr_code_scans' = Append(qr_code_scans, s)
        /\ InsertIntoFraudAlerts(out1 \o out4)
        /\ InsertIntoThreatScores(s)
        /\ UNCHANGED <<now, inventory_physical, inventory_digital, q2_state>>
        /\ UNCHANGED frontend_vars

\* A row of inventory-physical is delivered: Query 2 joins it with the digital
\* rows it holds, Query 5 evaluates it.  A row behind the watermark is either
\* still joined or skipped by the join; the rows found for one delivered row
\* of different event_time are written in no
\* particular order.
IngestPhysical(p) ==
    LET i    == Len(inventory_physical) + 1
        late == IsLate(EventTime(p))
        out5 == IF Query5Where(p)
                THEN << [row |-> Query5Select(p, now), by |-> Trigger(5, 0, i, 0)] >>
                ELSE <<>>
    IN  \E joined \in (IF late THEN BOOLEAN ELSE {TRUE}) :
        LET matches == IF joined /\ Query2Where(p)
                       THEN { j \in q2_state.dig : Query2JoinOn(p, inventory_digital[j]) }
                       ELSE {}
        IN  \E order \in DigitalOrders(matches) :
            /\ inventory_physical' = Append(inventory_physical, p)
            /\ InsertIntoFraudAlerts(
                   [k \in 1..Len(order) |->
                       [row |-> Query2Select(p, inventory_digital[order[k]], now),
                        by  |-> Trigger(2, 0, i, order[k])]] \o out5)
            /\ LET physical == Append(inventory_physical, p)
                   phys == IF joined THEN q2_state.phys \cup {i} ELSE q2_state.phys
                   wm   == WatermarkAfterPhysical(p)
                   none == inventory_digital = <<>>
               IN  q2_state' =
                     [phys |-> { j \in phys : none \/ Query2Keeps(EventTime(physical[j]), wm) },
                      dig  |-> { j \in q2_state.dig :
                                   Query2Keeps(EventTimeDigital(inventory_digital[j]), wm) },
                      late |-> IF late THEN q2_state.late \cup {<<"phys", i>>}
                               ELSE q2_state.late]
            /\ UNCHANGED <<now, qr_code_scans, inventory_digital,
                           threat_scores, scored, q6_state>>
            /\ UNCHANGED frontend_vars

\* A row of inventory-digital is delivered: Query 2 joins it with the physical
\* rows it holds, Query 3 evaluates it.
IngestDigital(d) ==
    LET i    == Len(inventory_digital) + 1
        late == IsLate(EventTimeDigital(d))
        out3 == IF Query3Where(d)
                THEN << [row |-> Query3Select(d), by |-> Trigger(3, 0, 0, i)] >>
                ELSE <<>>
    IN  \E joined \in (IF late THEN BOOLEAN ELSE {TRUE}) :
        LET matches == IF joined
                       THEN { j \in q2_state.phys :
                                /\ Query2Where(inventory_physical[j])
                                /\ Query2JoinOn(inventory_physical[j], d) }
                       ELSE {}
        IN  \E order \in PhysicalOrders(matches) :
            /\ inventory_digital' = Append(inventory_digital, d)
            /\ InsertIntoFraudAlerts(
                   [k \in 1..Len(order) |->
                       [row |-> Query2Select(inventory_physical[order[k]], d, now),
                        by  |-> Trigger(2, 0, order[k], i)]] \o out3)
            /\ LET digital == Append(inventory_digital, d)
                   dig  == IF joined THEN q2_state.dig \cup {i} ELSE q2_state.dig
                   wm   == WatermarkAfterDigital(d)
                   none == inventory_physical = <<>>
               IN  q2_state' =
                     [phys |-> { j \in q2_state.phys :
                                   Query2Keeps(EventTime(inventory_physical[j]), wm) },
                      dig  |-> { j \in dig :
                                   none \/ Query2Keeps(EventTimeDigital(digital[j]), wm) },
                      late |-> IF late THEN q2_state.late \cup {<<"dig", i>>}
                               ELSE q2_state.late]
            /\ UNCHANGED <<now, qr_code_scans, inventory_physical,
                           threat_scores, scored, q6_state>>
            /\ UNCHANGED frontend_vars

\* Processing time passes: by a second, or by just over the view's horizon.
TickSteps == {1, LiveHorizonS + 1}

TicksTaken ==
    ((now - Epoch0) \div (LiveHorizonS + 1)) + ((now - Epoch0) % (LiveHorizonS + 1))

Tick(step) ==
    /\ TicksTaken < MaxTicks
    /\ now' = now + step
    /\ UNCHANGED <<qr_code_scans, inventory_physical, inventory_digital,
                   fraud_alerts, fired, q2_state, threat_scores, scored, q6_state>>
    /\ UNCHANGED frontend_vars

-----------------------------------------------------------------------------
(* QUERY 7: Real-Time Anomaly Dashboard View (live_threats) *)

\* WHERE timestamp_detected >= UNIX_TIMESTAMP() - 3600 AND requires_action = TRUE
\* (timestamp_detected is the source row's timestamp, epoch milliseconds;
\*  UNIX_TIMESTAMP() is epoch seconds)
LiveThreatsWhere(a, unix_ts) ==
    /\ a.timestamp_detected # NullInt
    /\ a.timestamp_detected >= unix_ts - LiveHorizonS
    /\ a.requires_action = TRUE

\* LiveThreatsOrderBy with the score ascending
LiveThreatsOrderBy_Ascending(a, b) ==
    \/ a.threat_score < b.threat_score
    \/ (a.threat_score = b.threat_score /\ a.timestamp_detected > b.timestamp_detected)

\* ORDER BY threat_score DESC, timestamp_detected DESC: a sorts strictly before b
LiveThreatsOrderBy(a, b) ==
    \/ a.threat_score > b.threat_score
    \/ (a.threat_score = b.threat_score /\ a.timestamp_detected > b.timestamp_detected)

\* the select list of the view
LiveThreatsSelect(a, unix_ts) ==
    [ alert_id           |-> a.alert_id,
      alert_type         |-> a.alert_type,
      severity           |-> a.severity,
      title              |-> a.title,
      description        |-> a.description,
      product_id         |-> a.product_id,
      product_name       |-> a.product_name,
      location           |-> a.location,
      threat_score       |-> a.threat_score,
      timestamp_detected |-> a.timestamp_detected,
      viewed_at          |-> unix_ts ]

\* every order of S that ORDER BY admits: rows equal on both sort keys come in
\* any order
RECURSIVE Sorted(_)
Sorted(S) ==
    IF S = {} THEN {<<>>}
    ELSE UNION { { <<x>> \o rest : rest \in Sorted(S \ {x}) } :
                 x \in { y \in S : \A z \in S : ~LiveThreatsOrderBy(z, y) } }

Limit(v, n) == IF Len(v) <= n THEN v ELSE SubSeq(v, 1, n)

\* the results SELECT * FROM live_threats can return in the current state
live_threats ==
    { Limit(v, LiveLimit) :
        v \in Sorted({ LiveThreatsSelect(a, now) :
                         a \in { r \in FraudAlertsTable : LiveThreatsWhere(r, now) } }) }

-----------------------------------------------------------------------------
(* Input rows.  A row carries the columns the queries read; the columns no     *)
(* query reads (event_type of a scan, category, sku, reader_id, ...) are left  *)
(* out.                                                                        *)

ProductInfo(qr, value) ==
    IF qr = "q1"
    THEN [product_id |-> "P1", name |-> "Dell XPS 15 Laptop", value |-> value]
    ELSE [product_id |-> "P2", name |-> "USB Cable", value |-> value]

ScanRow(qr, valid, alert, level, loc, value, ts) ==
    [ timestamp        |-> ts,
      qr_id            |-> qr,
      is_valid         |-> valid,
      threat_level     |-> level,
      reason           |-> IF valid THEN "verified" ELSE "signature mismatch",
      scan_location    |-> loc,
      product_info     |-> ProductInfo(qr, value),
      fraud_indicators |-> IF valid THEN <<>>
                           ELSE << [type |-> "tampered_qr", severity |-> level,
                                    description |-> "payload hash differs"] >>,
      alert            |-> alert ]

WeightRow(etype, sensor, loc, expected, detected, delta, anomaly, ts) ==
    [ event_type           |-> etype,
      sensor_id            |-> sensor,
      camera_id            |-> NullStr,
      location             |-> loc,
      delta_kg             |-> delta,
      anomaly_detected     |-> anomaly,
      expected_items_count |-> expected,
      detected_items_count |-> detected,
      detection_type       |-> NullStr,
      confidence           |-> NullInt,
      object_count         |-> NullInt,
      alert                |-> FALSE,
      timestamp            |-> ts ]

CameraRow(camera, loc, dtype, conf, alert, ts) ==
    [ event_type           |-> "camera_detection",
      sensor_id            |-> NullStr,
      camera_id            |-> camera,
      location             |-> loc,
      delta_kg             |-> NullInt,
      anomaly_detected     |-> FALSE,
      expected_items_count |-> NullInt,
      detected_items_count |-> NullInt,
      detection_type       |-> dtype,
      confidence           |-> conf,
      object_count         |-> 2,
      alert                |-> alert,
      timestamp            |-> ts ]

SnapshotRow(product, loc, qty, updated) ==
    [ product_id       |-> product,
      product_name     |-> "Dell XPS 15 Laptop",
      location         |-> loc,
      quantity_on_hand |-> qty,
      last_updated     |-> updated,
      warehouse_id     |-> "WH-PARIS",
      transaction_id   |-> NullStr,
      transaction_type |-> NullStr,
      quantity_change  |-> NullInt,
      user_id          |-> NullStr,
      notes            |-> NullStr,
      timestamp        |-> NullInt ]

TransactionRow(txn, product, loc, ttype, user, notes, ts) ==
    [ product_id       |-> product,
      product_name     |-> "Dell XPS 15 Laptop",
      location         |-> loc,
      quantity_on_hand |-> NullInt,
      last_updated     |-> NullInt,
      warehouse_id     |-> "WH-PARIS",
      transaction_id   |-> txn,
      transaction_type |-> ttype,
      quantity_change  |-> 0 - 20,
      user_id          |-> user,
      notes            |-> notes,
      timestamp        |-> ts ]

LocationOf(qr) == IF qr = "q1" THEN "exit_gate_A" ELSE "dock_B"
ValueOf(qr) == IF qr = "q1" THEN 129900 ELSE 8000

(* Rows of Spec: the whole pipeline on a few representative rows *)

ScanRows ==
    { ScanRow(qr, FALSE, TRUE, level, LocationOf(qr), ValueOf(qr), ts) :
        qr \in {"q1", "q2"}, level \in {"critical", "low"}, ts \in {T0, T0 + 2000} }
    \cup { ScanRow("q1", TRUE, FALSE, "none", "exit_gate_A", 129900, T0) }
    \cup { ScanRow("q1", FALSE, FALSE, "critical", "exit_gate_A", value, T0 + 1000) :
             value \in {50000, 50001} }

PhysicalRows ==
    { CameraRow("CAM-7", "A", "suspicious_activity", conf, TRUE, T0 + 1000) :
        conf \in {70, 75, 100} }
    \cup { WeightRow("weight_sensor", "W1", "A", 100, 70, 0 - 420, anomaly, T0) :
             anomaly \in BOOLEAN }

DigitalRows ==
    { SnapshotRow("P1", "A", 100, T0 + 1000),
      TransactionRow("TXN-1", "P1", "A", "fraud_adjust", "COMPROMISED-ACCOUNT-X",
                     "FRAUDULENT: Items marked as shipped but were stolen", T0),
      TransactionRow("TXN-2", "P2", "B", "fraud_adjust", "clerk-17", "stock correction", T0),
      TransactionRow("TXN-3", "P2", "B", "sale", "clerk-17", "regular sale", T0) }

(* Rows of SpecJoin: weight anomalies and inventory snapshots around the       *)
(* 30 second window and the 5 second watermark delay                           *)

JoinPhysicalRows ==
    { WeightRow("weight_sensor", "W1", "A", 100, 70, 0 - 420, TRUE, T0 + dt) :
        dt \in {0, 2000, 4000, 34000} }
    \cup { WeightRow("weight_sensor", "W2", "B", 100, 70, 0 - 420, TRUE, T0 + 2000) }

JoinDigitalRows ==
    { SnapshotRow("P1", "A", 100, T0 + dt) : dt \in {3999, 4000, 30000, 30001} }
    \cup { SnapshotRow("P1", "B", 100, T0 + 4000) }

(* Rows of SpecScores: scans of two products in three consecutive 5-minute      *)
(* windows; a scan 5 seconds past the end of a window fires it                  *)

ScoreScanRows ==
    { ScanRow("q1", FALSE, TRUE, level, "exit_gate_A", 129900, T0 + dt) :
        level \in {"critical", "low"}, dt \in {0, 205000} }
    \cup { ScanRow("q1", FALSE, TRUE, "critical", "dock_B", 129900, T0),
           ScanRow("q1", TRUE, FALSE, "none", "exit_gate_A", 129900, T0 + 1000),
           ScanRow("q2", FALSE, TRUE, "high", "dock_B", 8000, T0),
           ScanRow("q1", FALSE, TRUE, "critical", "exit_gate_A", 129900, T0 + 505000) }

ScoreDigitalRows ==
    { TransactionRow("TXN-1", "P1", "A", "fraud_adjust", "clerk-17", "stock correction", T0) }

(* Rows of SpecLull: weight anomalies and inventory snapshots 40 seconds apart, *)
(* further than the join window and the watermark delay together               *)

LullPhysicalRows ==
    { WeightRow("weight_sensor", "W1", "A", 100, 70, 0 - 420, TRUE, T0 + dt) :
        dt \in {0, 40000, 80000} }

LullDigitalRows ==
    { SnapshotRow("P1", "A", 100, T0 + dt) : dt \in {0, 40000, 80000} }

(* Rows of SpecRules: every combination of the columns a rule reads, and rows  *)
(* whose timestamp is missing                                                  *)

ThreatLevels == {"critical", "high", "medium", "low", "none"}

RuleScanRows ==
    { ScanRow("q1", valid, alert, level, loc, value, T0) :
        valid \in BOOLEAN, alert \in BOOLEAN, level \in ThreatLevels,
        loc \in {"exit_gate_A", "dock_B", "EXIT_GATE_C"},
        value \in {50000, 50001, 129900} }
    \cup
    { ScanRow("q1", FALSE, alert, "critical", "exit_gate_A", 129900, NullInt) :
        alert \in BOOLEAN }

RulePhysicalRows ==
    { WeightRow(etype, "W1", loc, 100, detected, delta, anomaly, T0 + dt) :
        etype \in {"weight_sensor", "rfid"}, loc \in {"A", "B"},
        detected \in {96, 95, 70}, delta \in {0 - 99, 0 - 100, 0 - 101, 101},
        anomaly \in BOOLEAN, dt \in {0, 1, 30001, 60001, 60002} }
    \cup
    { CameraRow("CAM-7", "A", dtype, conf, alert, T0 + 1) :
        dtype \in {"suspicious_activity", "person_detected"},
        conf \in {69, 70, 71, 82, 83, 100}, alert \in BOOLEAN }
    \cup
    { CameraRow("CAM-7", "A", "suspicious_activity", 100, TRUE, NullInt),
      WeightRow("weight_sensor", "W1", "A", 100, 70, 0 - 420, TRUE, NullInt) }

RuleDigitalRows ==
    { SnapshotRow("P1", "A", 100, T0 + 30001) }
    \cup
    { TransactionRow("TXN-1", "P1", "A", ttype, user, notes, T0 + 30001) :
        ttype \in {"sale", "fraud_adjust"},
        user  \in {"clerk-17", "COMPROMISED-ACCOUNT-X", "UNKNOWN"},
        notes \in {"regular sale", "FRAUDULENT: stolen", "SUSPICIOUS pattern", "suspicious"} }
    \cup
    { TransactionRow("TXN-1", "P1", "A", "fraud_adjust", "clerk-17", "stock correction",
                     NullInt) }

-----------------------------------------------------------------------------
(* Spec: the pipeline.  Rows arrive on the three topics in any order while     *)
(* processing time passes.                                                     *)

Next ==
    \/ \E s \in ScanRows : Delivered < MaxRows /\ IngestScan(s)
    \/ \E p \in PhysicalRows : Delivered < MaxRows /\ IngestPhysical(p)
    \/ \E d \in DigitalRows : Delivered < MaxRows /\ IngestDigital(d)
    \/ \E step \in TickSteps : Tick(step)

Spec == Init /\ [][Next]_vars

(* SpecJoin: Query 2's interval join under out-of-order delivery *)

NextJoin ==
    \/ \E p \in JoinPhysicalRows : Delivered < MaxJoinRows /\ IngestPhysical(p)
    \/ \E d \in JoinDigitalRows : Delivered < MaxJoinRows /\ IngestDigital(d)

SpecJoin == Init /\ [][NextJoin]_vars

(* SpecRules: each rule on one input row (Queries 1, 3, 4, 5) or on one pair   *)
(* of rows (Query 2), over every combination of the columns it reads           *)

NextRules ==
    \/ \E s \in RuleScanRows : Delivered = 0 /\ IngestScan(s)
    \/ \E p \in RulePhysicalRows :
          qr_code_scans = <<>> /\ inventory_physical = <<>> /\ IngestPhysical(p)
    \/ \E d \in RuleDigitalRows :
          qr_code_scans = <<>> /\ inventory_digital = <<>> /\ IngestDigital(d)

SpecRules == Init /\ [][NextRules]_vars

(* SpecScores: Query 6's windows over scans, beside the alerts of the same     *)
(* scans and of a transaction, while processing time passes                    *)

NextScores ==
    \/ \E s \in ScoreScanRows : Delivered < MaxScoreRows /\ IngestScan(s)
    \/ \E d \in ScoreDigitalRows : Delivered < MaxScoreRows /\ IngestDigital(d)
    \/ \E step \in TickSteps : Tick(step)

SpecScores == Init /\ [][NextScores]_vars

(* SpecLull: Query 2's join state when rows stop arriving.  The jobs take      *)
(* every row there is to take; nothing makes a further row arrive.             *)

NextLull ==
    \/ \E p \in LullPhysicalRows : Delivered < MaxLullRows /\ IngestPhysical(p)
    \/ \E d \in LullDigitalRows : Delivered < MaxLullRows /\ IngestDigital(d)

SpecLull == Init /\ [][NextLull]_vars /\ WF_vars(NextLull)

(* SpecSocket: the useWebSocket hook under effect runs, calls of its connect   *)
(* and disconnect, socket events and reconnect timers in any order             *)

NextSocket ==
    \/ \E token_user \in BOOLEAN : AutoConnectEffect(token_user)
    \/ Unmount
    \/ Connect
    \/ Disconnect
    \/ \E i \in 1..Len(sockets) : SocketOpen(i)
    \/ \E i \in 1..Len(sockets) : \E code \in {NormalClosure} \cup OtherClosures :
          SocketClose(i, code)
    \/ ReconnectTimer

SpecSocket == Init /\ [][NextSocket]_vars

(* SpecDashboard: the Dashboard mounted, its socket open, messages arriving    *)

NextDashboard ==
    \/ DashboardMount
    \/ \E i \in 1..Len(sockets) : SocketOpen(i)
    \/ \E i \in 1..Len(sockets) : \E message \in Messages : SocketMessage(i, message)

SpecDashboard == Init /\ [][NextDashboard]_vars

(* SpecApp: the auth store and the router under calls, responses, failures,    *)
(* page loads and navigation in any order                                      *)

NextApp ==
    \/ \E action \in LoginActions : Begin(action)
    \/ BeginRefreshUser
    \/ \E action \in LoginActions \cup {"refreshUser"} : \E u \in Users : Respond(action, u)
    \/ \E action \in LoginActions \cup {"refreshUser"} : \E status \in {401, 500} :
          Reject(action, status)
    \/ Logout
    \/ ClearError
    \/ \E b \in BOOLEAN : SetLoading(b)
    \/ \E expired \in BOOLEAN : PageLoad(expired)
    \/ \E path \in Paths : GoTo(path)
    \/ Redirect

SpecApp == Init /\ [][NextApp]_vars

-----------------------------------------------------------------------------
(* Properties *)

Records == 1..Len(fraud_alerts)

RecordsOfScan(q, i) == { k \in Records : fired[k].query = q /\ fired[k].scan = i }

\* the severity bucket of a score (in hundredths): critical from 90, high from 70,
\* medium from 50, low below
SeverityOfScore(score) ==
    IF score >= 90 * 100 THEN "critical"
    ELSE IF score >= 70 * 100 THEN "high"
    ELSE IF score >= 50 * 100 THEN "medium"
    ELSE "low"

\* C1: every record written to fraud_alerts, by any of the five queries, carries
\* the severity that is the bucket of its threat score.
C1_SeverityMatchesScore ==
    \A k \in Records :
        fraud_alerts[k].severity = SeverityOfScore(fraud_alerts[k].threat_score)

\* C7: Query 1 writes exactly one record for every delivered scan with
\* is_valid = FALSE and none for a valid scan, with severity and score
\* critical/95, high/80, medium/60 by threat level and low/40 otherwise.
C7_InvalidQrOncePerInvalidScan ==
    \A i \in 1..Len(qr_code_scans) :
        LET s == qr_code_scans[i]
            R == RecordsOfScan(1, i)
        IN  /\ Cardinality(R) = (IF s.is_valid THEN 0 ELSE 1)
            /\ \A k \in R :
                  /\ fraud_alerts[k].alert_type = "invalid_qr_code"
                  /\ <<fraud_alerts[k].severity, fraud_alerts[k].threat_score>> =
                        (IF s.threat_level = "critical" THEN <<"critical", 9500>>
                         ELSE IF s.threat_level = "high" THEN <<"high", 8000>>
                         ELSE IF s.threat_level = "medium" THEN <<"medium", 6000>>
                         ELSE <<"low", 4000>>)

\* an invalid scan at an exit location with a value above 500
IsHighValueExitScan(s) ==
    /\ ~s.is_valid
    /\ LikeContains(s.scan_location, "exit")
    /\ s.product_info.value > 500 * 100

IsExitBlock(a) ==
    a.alert_type = "unauthorized_exit" /\ a.severity = "critical" /\ a.threat_score = 100 * 100

RecordsOfPair(i, j) ==
    { k \in Records : fired[k].query = 2 /\ fired[k].phys = i /\ fired[k].dig = j }

WithinSeconds(p, d, seconds) ==
    /\ EventTime(p) # NullInt /\ EventTimeDigital(d) # NullInt
    /\ Abs(EventTime(p) - EventTimeDigital(d)) <= seconds * 1000

TableRecords ==
    { k \in Records : \A l \in (k + 1)..Len(fraud_alerts) :
                          fraud_alerts[l].alert_id # fraud_alerts[k].alert_id }

\* the source rows a record was produced from
TriggerRows(k) ==
    [ scan |-> IF fired[k].scan = 0 THEN <<>> ELSE <<qr_code_scans[fired[k].scan]>>,
      phys |-> IF fired[k].phys = 0 THEN <<>> ELSE <<inventory_physical[fired[k].phys]>>,
      dig  |-> IF fired[k].dig = 0 THEN <<>> ELSE <<inventory_digital[fired[k].dig]>> ]

\* C2: delivering the same event twice, at any two processing times, leaves at
\* most one row per rule for it in the fraud_alerts table: two firings of one
\* rule on the same source rows collapse onto one alert_id.
C2_RedeliveryCollapses ==
    \A k \in TableRecords, l \in TableRecords :
        (fired[k].query = fired[l].query /\ TriggerRows(k) = TriggerRows(l)) => k = l

Range(f) == { f[x] : x \in DOMAIN f }

CoincidenceWindowMs == 5 * 1000

\* two records of different rules for the same product, detected within the
\* coincidence window of each other
Coincide(k, l) ==
    /\ k # l
    /\ fired[k].query # fired[l].query
    /\ fraud_alerts[k].product_id = fraud_alerts[l].product_id
    /\ Abs(fraud_alerts[k].timestamp_detected - fraud_alerts[l].timestamp_detected)
          <= CoincidenceWindowMs

C5_JoinWithinWindow ==
    \A k \in Records :
        fired[k].query = 2 =>
            LET p == inventory_physical[fired[k].phys]
                d == inventory_digital[fired[k].dig]
            IN  p.location = d.location /\ WithinSeconds(p, d, 30)

\* a pair exactly 30 s apart was joined
C5_Witness ==
    \E k \in Records :
        /\ fired[k].query = 2
        /\ Abs(EventTime(inventory_physical[fired[k].phys])
               - EventTimeDigital(inventory_digital[fired[k].dig])) = 30 * 1000

OnTime(topic, i) == <<topic, i>> \notin q2_state.late

IsWeightAnomaly(p) ==
    /\ p.event_type = "weight_sensor" /\ p.anomaly_detected
    /\ p.expected_items_count - p.detected_items_count >= 5
    /\ Abs(p.delta_kg) > 10 * 10

\* every row delivered within the lateness bound is joined with every on-time
\* anchor of its location within 30 s of it, whatever the arrival order
JoinComplete ==
    \A i \in 1..Len(inventory_physical), j \in 1..Len(inventory_digital) :
        LET p == inventory_physical[i]
            d == inventory_digital[j]
        IN  ( /\ OnTime("phys", i) /\ OnTime("dig", j)
              /\ IsWeightAnomaly(p)
              /\ p.location = d.location /\ WithinSeconds(p, d, 30) )
            => RecordsOfPair(i, j) # {}

C9_LiveViewWithinLastHour ==
    \A v \in live_threats : \A n \in 1..Len(v) :
        /\ v[n].timestamp_detected >= (now - 3600) * 1000
        /\ \E a \in FraudAlertsTable : a.alert_id = v[n].alert_id /\ a.requires_action

\* ASCII order of the characters that occur in alert ids
Alphabet == "-0123456789ABCDEFGHIJKLMNOPQRSTUVWXYZ_abcdefghijklmnopqrstuvwxyz"

CharRank(c) == CHOOSE r \in 1..Len(Alphabet) : SubSeq(Alphabet, r, r) = c

\* a is before b in the order of strings
StrLess(a, b) ==
    \E i \in 1..Len(b) :
        /\ i <= Len(a) + 1
        /\ SubSeq(a, 1, i - 1) = SubSeq(b, 1, i - 1)
        /\ (i = Len(a) + 1 \/ CharRank(SubSeq(a, i, i)) < CharRank(SubSeq(b, i, i)))

SortedByScoreThenTime(v) ==
    \A m \in 1..Len(v), n \in 1..Len(v) :
        m < n => \/ v[m].threat_score > v[n].threat_score
                 \/ /\ v[m].threat_score = v[n].threat_score
                    /\ v[m].timestamp_detected >= v[n].timestamp_detected

\* C10 (as stated): every result of the live view is sorted by score
\* descending, then detected-at descending, and rows equal on both are in
\* alert id order.
C10_LiveViewSortedTiesById ==
    \A v \in live_threats :
        /\ SortedByScoreThenTime(v)
        /\ \A m \in 1..Len(v), n \in 1..Len(v) :
              ( /\ m < n
                /\ v[m].threat_score = v[n].threat_score
                /\ v[m].timestamp_detected = v[n].timestamp_detected )
              => StrLess(v[m].alert_id, v[n].alert_id)

\* C10 (amended): every result of the live view is sorted by score descending,
\* then detected-at descending, so no row is preceded by a row with a strictly
\* lower score; rows equal on both keys come in no defined order.
C10_LiveViewSorted ==
    \A v \in live_threats : SortedByScoreThenTime(v)

\* a view with rows of different scores and with two rows equal on both keys,
\* which it can return in either order
C10_Witness ==
    /\ \E v \in live_threats : \E m \in 1..Len(v), n \in 1..Len(v) :
          v[m].threat_score > v[n].threat_score
    /\ \E v \in live_threats, w \in live_threats : v # w

-----------------------------------------------------------------------------
(* threat_scores *)

ScoreRecords == 1..Len(threat_scores)

RECURSIVE SumFn(_)
SumFn(f) ==
    IF DOMAIN f = {} THEN 0
    ELSE LET x == CHOOSE y \in DOMAIN f : TRUE
         IN  f[x] + SumFn([y \in DOMAIN f \ {x} |-> f[y]])

\* the threat_scores table holds at most one row per product id, the record
\* written last for that product
OneRowPerProductLatestWins ==
    /\ \A a \in ThreatScoresTable, b \in ThreatScoresTable :
          a.product_id = b.product_id => a = b
    /\ \A m \in ScoreRecords :
          LET last == Max({ l \in ScoreRecords :
                              threat_scores[l].product_id = threat_scores[m].product_id })
          IN  { a \in ThreatScoresTable : a.product_id = threat_scores[m].product_id }
                  = { threat_scores[last] }

ThreatLevelScore(threat_level) ==
    CASE threat_level = "critical" -> 95 * 100
      [] threat_level = "high"     -> 80 * 100
      [] threat_level = "medium"   -> 60 * 100
      [] threat_level = "low"      -> 30 * 100
      [] OTHER                     -> 10 * 100

\* the scans of record m's group: same window, product, name and location,
\* delivered by the time the record was written and not left out by Query 6
GroupScans(m) ==
    { j \in 1..scored[m].by :
        /\ j \notin q6_state.dropped
        /\ TumbleStart(EventTime(qr_code_scans[j])) = scored[m].window
        /\ qr_code_scans[j].product_info.product_id = threat_scores[m].product_id
        /\ qr_code_scans[j].product_info.name = threat_scores[m].product_name
        /\ qr_code_scans[j].scan_location = threat_scores[m].location }

\* the Alerts of record m's product detected inside record m's window
WindowAlerts(m) ==
    { k \in Records :
        /\ fraud_alerts[k].product_id = threat_scores[m].product_id
        /\ fraud_alerts[k].timestamp_detected >= scored[m].window
        /\ fraud_alerts[k].timestamp_detected < scored[m].window + 5 * 60 * 1000 }

-----------------------------------------------------------------------------
(* No false positive *)

\* the anomaly flag of a physical sensor event: alert for a camera detection,
\* anomaly_detected for a weight sensor or RFID reading
AnomalyFlag(p) ==
    IF p.event_type = "camera_detection" THEN p.alert ELSE p.anomaly_detected

\* a digital row of the same location within 30 s of physical row i was delivered
HasDigitalNearby(i) ==
    \E j \in 1..Len(inventory_digital) :
        /\ inventory_physical[i].location = inventory_digital[j].location
        /\ WithinSeconds(inventory_physical[i], inventory_digital[j], 30)

HasPhysicalNearby(j) ==
    \E i \in 1..Len(inventory_physical) :
        /\ inventory_physical[i].location = inventory_digital[j].location
        /\ WithinSeconds(inventory_physical[i], inventory_digital[j], 30)

\* C13: a physical sensor row whose anomaly flag is false and that has no
\* digital row near it in time leaves no record of any query; a row of either
\* input with no row of the other input inside the window leaves no record of
\* the join.
C13_NoAlertWithoutAnomalyOrMatch ==
    /\ \A i \in 1..Len(inventory_physical) :
          (~AnomalyFlag(inventory_physical[i]) /\ ~HasDigitalNearby(i))
          => \A k \in Records : fired[k].phys # i
    /\ \A i \in 1..Len(inventory_physical) :
          ~HasDigitalNearby(i) => \A k \in Records : ~(fired[k].query = 2 /\ fired[k].phys = i)
    /\ \A j \in 1..Len(inventory_digital) :
          ~HasPhysicalNearby(j) => \A k \in Records : ~(fired[k].query = 2 /\ fired[k].dig = j)

\* a physical row without its anomaly flag, then a transaction of the same
\* location more than 30 s away from it: the physical row left nothing, the
\* transaction was still evaluated
C13_Witness ==
    /\ Len(inventory_physical) = 1 /\ Len(inventory_digital) = 1
    /\ ~AnomalyFlag(inventory_physical[1])
    /\ inventory_physical[1].location = inventory_digital[1].location
    /\ ~HasDigitalNearby(1)
    /\ EventTime(inventory_physical[1]) # NullInt
    /\ \A k \in Records : fired[k].phys # 1
    /\ \E k \in Records : fired[k].query = 3 /\ fired[k].dig = 1 /\ fired[k].step = 2

-----------------------------------------------------------------------------
(* Rows without event-time *)

\* C14: a row whose event-time is missing is dropped when it is delivered: no
\* record of fraud_alerts or threat_scores comes from it and it is in no window
\* or join state.
C14_MissingEventTimeDropped ==
    /\ \A k \in Records :
          /\ fired[k].scan # 0 => EventTime(qr_code_scans[fired[k].scan]) # NullInt
          /\ fired[k].phys # 0 => EventTime(inventory_physical[fired[k].phys]) # NullInt
          /\ fired[k].dig # 0 => EventTimeDigital(inventory_digital[fired[k].dig]) # NullInt
    /\ \A m \in ScoreRecords :
          \A j \in scored[m].scans : EventTime(qr_code_scans[j]) # NullInt
    /\ \A j \in q6_state.rows : EventTime(qr_code_scans[j]) # NullInt

-----------------------------------------------------------------------------
(* Lifecycle of an alert *)

\* a record of the topic is emitted while it is the row of its alert_id in the
\* table, superseded once a later record was written under its alert_id
Superseded(k) == k \in Records /\ k \notin TableRecords

\* one step of the lifecycle: the topic only grows and keeps every record it
\* had as it was, a superseded record stays superseded, and every row of the
\* live view is the current row of its alert_id, never a superseded one
LifecycleStep ==
    /\ Len(fraud_alerts') >= Len(fraud_alerts)
    /\ \A k \in Records : fraud_alerts'[k] = fraud_alerts[k]
    /\ \A k \in Records : Superseded(k) => Superseded(k)'
    /\ \A v \in live_threats' : \A n \in 1..Len(v) :
          \E k \in TableRecords' : v[n] = LiveThreatsSelect(fraud_alerts'[k], now')

-----------------------------------------------------------------------------
(* Join state under a lull *)

\* no row the join holds is further behind the watermark than the join window
PurgedUpToWatermark ==
    HasWatermark =>
        /\ \A i \in q2_state.phys :
              EventTime(inventory_physical[i]) >= Query2Watermark - 30 * 1000
        /\ \A j \in q2_state.dig :
              EventTimeDigital(inventory_digital[j]) >= Query2Watermark - 30 * 1000

\* rows were let go of: the join holds fewer rows than were delivered on time
SomeRowPurged ==
    /\ q2_state.late = {}
    /\ Cardinality(q2_state.phys) + Cardinality(q2_state.dig) < Delivered

\* C18: every row the join holds is let go of in the end, also when no
\* further row arrives, and no row is held that is further behind the
\* watermark than the retention.
C18_EveryEntryEventuallyPurged ==
    /\ []PurgedUpToWatermark
    /\ \A i \in 1..MaxLullRows :
          /\ (i \in q2_state.phys) ~> (i \notin q2_state.phys)
          /\ (i \in q2_state.dig) ~> (i \notin q2_state.dig)

-----------------------------------------------------------------------------
(* Rule 4 and rule 3 *)

C20_SuspiciousUserFiresOnMarkers ==
    /\ \A j \in 1..Len(inventory_digital) :
          LET d == inventory_digital[j]
              R == { k \in Records : fired[k].query = 3 /\ fired[k].dig = j }
          IN  /\ Cardinality(R) <= 1
              /\ (R # {})
                    <=> ( \/ d.transaction_type = "fraud_adjust"
                          \/ LikeContains(d.user_id, "COMPROMISED")
                          \/ LikeContains(d.user_id, "UNKNOWN")
                          \/ LikeContains(d.notes, "FRAUDULENT")
                          \/ LikeContains(d.notes, "SUSPICIOUS") )
    /\ \A k \in Records :
          fired[k].query = 3 =>
              /\ fired[k].scan = 0 /\ fired[k].phys = 0
              /\ fraud_alerts[k].alert_type = "suspicious_user"
              /\ fraud_alerts[k].severity = "critical"
              /\ fraud_alerts[k].threat_score = 92 * 100

\* a sale by an ordinary user whose notes alone carry the marker fired, with no
\* other row delivered
C20_Witness ==
    /\ Delivered = 1
    /\ \E k \in Records :
          /\ fired[k].query = 3
          /\ inventory_digital[fired[k].dig].transaction_type = "sale"
          /\ inventory_digital[fired[k].dig].user_id = "clerk-17"
          /\ inventory_digital[fired[k].dig].notes = "SUSPICIOUS pattern"


-----------------------------------------------------------------------------
(* The useWebSocket hook                                                       *)

\* Whether the socket the hook refers to is OPEN
CurrentOpen == ws # 0 /\ sockets[ws].readyState = "OPEN"

\* The sockets of the hook that are CONNECTING or OPEN
LiveSockets == { i \in 1..Len(sockets) : sockets[i].readyState \in {"CONNECTING", "OPEN"} }

\* Socket i receives its close event in this step
Closes(i) == sockets[i].readyState # "CLOSED" /\ sockets'[i].readyState = "CLOSED"

\* Socket i receives its open event in this step
Opens(i) == sockets[i].readyState = "CONNECTING" /\ sockets'[i].readyState = "OPEN"

\* C22: once disconnect() has been called for a socket, no reconnect attempt is
\* ever made for it: the reconnect timer started by the close event of a socket
\* that disconnect() closed never fires a connect().
C22_NoReconnectAfterDisconnect ==
    [][\A i \in log'.reconnects \ log.reconnects : i \notin log.disconnected]_vars

\* C23: at most one WebSocket created by the hook is CONNECTING or OPEN.
C23_AtMostOneLiveSocket == Cardinality(LiveSockets) <= 1

\* C27: an open, error or close event delivered by a socket that is not the
\* hook's current socket leaves isConnected equal to whether the current
\* socket is OPEN.
C27_StaleEventsAgree ==
    [][\A i \in 1..Len(sockets) :
          (i # ws /\ (Opens(i) \/ Closes(i))) => (isConnected' <=> CurrentOpen')]_vars

\* C28: the close of one socket never clears the heartbeat interval started by
\* a different socket that is still OPEN.
C28_CloseKeepsOtherHeartbeat ==
    [][\A i \in 1..Len(sockets) :
          Closes(i) => \A j \in intervals \ intervals' :
                          j = i \/ sockets'[j].readyState # "OPEN"]_vars

-----------------------------------------------------------------------------
(* The Dashboard                                                               *)

\* A message is received in this step
Receives == lastMessage' # lastMessage

\* C26: the alert list never holds more than 50 alerts; a received fraud_alert
\* with a payload is put first, the alerts before it follow in their order up
\* to the cap, total_alerts rises by exactly one and critical_alerts by one
\* only when its severity is critical; a message of any other type, or one
\* without payload, changes neither the list nor the metrics.
C26_NewestFirstCappedAndCounted ==
    /\ [](Len(alerts) <= AlertCap)
    /\ [][Receives =>
            LET message == lastMessage'
            IN  IF message.type = "fraud_alert" /\ message.payload # NullPayload
                THEN /\ alerts'[1] = message.payload
                     /\ Len(alerts') = (IF Len(alerts) < AlertCap
                                        THEN Len(alerts) + 1 ELSE AlertCap)
                     /\ \A k \in 2..Len(alerts') : alerts'[k] = alerts[k - 1]
                     /\ metrics'.total_alerts = metrics.total_alerts + 1
                     /\ metrics'.critical_alerts =
                            metrics.critical_alerts
                            + (IF message.payload.severity = "critical" THEN 1 ELSE 0)
                ELSE alerts' = alerts /\ metrics' = metrics]_vars

\* A critical fraud alert was received after the list was full: it is first,
\* the list holds 50 alerts and the oldest ones are gone
C26_Witness ==
    /\ lastMessage.type = "fraud_alert"
    /\ lastMessage.payload # NullPayload
    /\ lastMessage.payload.severity = "critical"
    /\ AlertsReceived > AlertCap - Len(mockAlerts)
    /\ Len(alerts) = AlertCap
    /\ alerts[1] = lastMessage.payload
    /\ metrics.critical_alerts > MockCriticalAlerts

-----------------------------------------------------------------------------
(* The route guards                                                            *)

ProtectedPages == {"Dashboard", "Settings", "Analytics"}

ProtectedPaths == {"/dashboard", "/settings", "/analytics"}

\* C24: at every path, a protected page is rendered only when isAuthenticated
\* is true, and Analytics only when the user's subscription_tier is paid;
\* otherwise the route renders a redirect to /login, respectively /pricing.
C24_GuardsRenderOnlyPermitted ==
    \A pathname \in Paths :
        LET element == AppRouter(pathname, store)
        IN  /\ element.page \in ProtectedPages => store.isAuthenticated
            /\ element.page = "Analytics" => store.user = "paid"
            /\ (pathname \in ProtectedPaths /\ ~store.isAuthenticated)
                  => element = Navigate("/login")
            /\ (pathname = "/analytics" /\ store.isAuthenticated /\ store.user # "paid")
                  => element = Navigate("/pricing")

\* A free user was sent from /analytics to /pricing, where a page is rendered
C24_Witness ==
    /\ done.action = "redirect"
    /\ location.pathname = "/pricing"
    /\ store.isAuthenticated
    /\ store.user = "free"
    /\ AppRouter("/analytics", store) = Navigate("/pricing")
    /\ AppRouter("/dashboard", store) = Page("Dashboard")

\* Following the redirects from a path, with the store as it is, ends at a
\* page without coming to a path twice
RECURSIVE Settles(_, _, _)
Settles(pathname, st, visited) ==
    LET element == AppRouter(pathname, st)
    IN  IF element.navigate = NullStr THEN TRUE
        ELSE IF element.navigate \in visited \cup {pathname} THEN FALSE
        ELSE Settles(element.navigate, st, visited \cup {pathname})

\* C30: for every auth state and every requested path, the redirects of
\* PublicRoute and ProtectedRoute reach a rendered page; no path is visited
\* twice while the auth state stays as it is.
C30_RedirectsReachAPage == \A pathname \in Paths : Settles(pathname, store, {})

\* A redirect was followed, by an authenticated user, and a page is rendered
C30_Witness ==
    /\ done.action = "redirect"
    /\ store.isAuthenticated
    /\ AppRouter(location.pathname, store).page = "Dashboard"

-----------------------------------------------------------------------------
(* The auth store                                                              *)

\* The step taken is the end of one of these actions
Ends(actions) == done'.action \in actions /\ done'.outcome \in {"ok", "failed"}

\* The step taken is a failure of register, login or googleLogin
Fails == done'.action \in LoginActions /\ done'.outcome = "failed"

\* The step leaves user, token and isAuthenticated as they are
KeepsSession ==
    /\ store'.user = store.user
    /\ store'.token = store.token
    /\ store'.isAuthenticated = store.isAuthenticated

FailedLoginFrame ==
    /\ (done'.action \in LoginActions /\ done'.outcome = "started") => KeepsSession
    /\ Fails => /\ KeepsSession
                /\ store'.error = FailureMessage(done'.action)
                /\ ~store'.isLoading
                /\ done'.thrown

\* C25 as stated: a failed register, login or googleLogin leaves user, token
\* and isAuthenticated as they were, sets error to the failure message, resets
\* isLoading and rethrows; isLoading is false after any store action finishes.
C25_NoActionLeavesLoading ==
    [][/\ FailedLoginFrame
       /\ Ends(LoginActions \cup {"refreshUser", "logout", "clearError", "setLoading"})
             => ~store'.isLoading]_vars

\* C25: a failed register, login or googleLogin leaves user, token and
\* isAuthenticated as they were, sets error to the failure message, resets
\* isLoading and rethrows; isLoading is false when register, login,
\* googleLogin or refreshUser finishes.
C25_FailedLoginKeepsSession ==
    [][/\ FailedLoginFrame
       /\ Ends(LoginActions \cup {"refreshUser"}) => ~store'.isLoading]_vars

\* A login of a signed-in user was refused with 401: the store keeps the
\* session and holds the message, the stored token is gone
C25_Witness ==
    /\ done = [action |-> "login", outcome |-> "failed", thrown |-> TRUE]
    /\ store.isAuthenticated
    /\ store.user # NullStr
    /\ store.error = FailureMessage("login")
    /\ ~store.isLoading
    /\ localStorage.auth_token = NullStr
    /\ location.href = "/login"

\* C29: in every reachable state isAuthenticated implies that user and token
\* are set; right after logout, and after a failed refreshUser, user and token
\* are null and isAuthenticated is false.
C29_AuthenticatedHasUserAndToken ==
    /\ store.isAuthenticated => (store.user # NullStr /\ store.token # NullStr)
    /\ (done.action = "logout" \/ (done.action = "refreshUser" /\ done.outcome = "failed"))
          => (store.user = NullStr /\ store.token = NullStr /\ ~store.isAuthenticated)

\* A refreshUser of a signed-in user failed: the session is gone from the
\* store and from what persist wrote
C29_Witness ==
    /\ done.action = "refreshUser"
    /\ done.outcome = "failed"
    /\ location.pathname = "/dashboard"
    /\ localStorage.auth_storage = partialize(store)
    /\ ~store.isAuthenticated

====
